---- MODULE Spec2Model ----
(***************************************************************************)
(* Model of the spotify-cli package: the interactive command loop          *)
(* (cli/cli.py), the SpotifyController resolution pipeline                  *)
(* (controllers/spotify_controller.py) and the LLM helper                   *)
(* (utils/llm_helper.py).                                                   *)
(*                                                                         *)
(* Python strings are sequences of one-character strings.  Python values   *)
(* that may be of any JSON type are records [t, s, n]: t is the type tag,  *)
(* s the characters of a str, n the number (or the length of a container). *)
(***************************************************************************)
EXTENDS Integers, Sequences, FiniteSets, TLC

\* ------------------------------------------------------------------ bounds
MaxReplyLen == 8
MaxChoiceLen == 2
MaxTokenLen == 3

\* ------------------------------------------------------- program constants
SearchLimit == 5
BestMatchLimit == 1
VolumeMin == 0
VolumeMax == 100

\* ---------------------------------------------------------------- strings
Whitespace == {" ", "\n", "\t"}

Separator == <<" ", "-", " ">>

StringsUpTo(chars, n) == UNION {[1..k -> chars] : k \in 0..n}

RECURSIVE lstrip(_)
lstrip(s) ==
  IF s # <<>> /\ Head(s) \in Whitespace THEN lstrip(Tail(s)) ELSE s

RECURSIVE rstrip(_)
rstrip(s) ==
  IF s # <<>> /\ s[Len(s)] \in Whitespace
    THEN rstrip(SubSeq(s, 1, Len(s) - 1))
    ELSE s

\* str.strip(): leading and trailing whitespace removed.
strip_nostrip(s) == s

strip(s) == rstrip(lstrip(s))

\* str.find(sep, i): index of the first occurrence at or after i, 0 if none.
RECURSIVE find(_, _, _)
find(s, sep, i) ==
  IF i + Len(sep) - 1 > Len(s) THEN 0
  ELSE IF SubSeq(s, i, i + Len(sep) - 1) = sep THEN i
  ELSE find(s, sep, i + 1)

\* sep in s
contains(s, sep) == find(s, sep, 1) # 0

\* str.split(sep): non-overlapping occurrences, left to right.
RECURSIVE split(_, _)
split(s, sep) ==
  LET i == find(s, sep, 1) IN
  IF i = 0 THEN <<s>>
  ELSE <<SubSeq(s, 1, i - 1)>> \o split(SubSeq(s, i + Len(sep), Len(s)), sep)

\* ----------------------------------------------------------- Python values
None == [t |-> "None", s |-> <<>>, n |-> 0]

Str(s) == [t |-> "str", s |-> s, n |-> 0]

Other(t, n) == [t |-> t, s |-> <<>>, n |-> n]

\* bool(v)
truthy(v) ==
  CASE v.t = "None" -> FALSE
    [] v.t = "str" -> v.s # <<>>
    [] OTHER -> v.n # 0

\* JSON values of the "response" field that are not strings.
NonStrings ==
  {None, Other("int", 0), Other("int", 42), Other("bool", 0), Other("bool", 1),
   Other("list", 0), Other("list", 2), Other("dict", 0), Other("dict", 1)}

\* ------------------------------------------------------- LLMHelper.generate
\* What the POST to the generation endpoint does: fail in one of the ways
\* that raise inside the try block, or answer a JSON object whose "response"
\* field holds value.
FailureKinds ==
  {"connection_error", "timeout", "http_error", "not_json", "no_response_field"}

Failures == {[kind |-> k, value |-> None] : k \in FailureKinds}

Answer(v) == [kind |-> "ok", value |-> v]

NoOutcome == [kind |-> "none", value |-> None]

\* the value generate() returns
generate(outcome) == IF outcome.kind = "ok" THEN outcome.value ELSE None

\* whether generate() prints "LLM Error"
generate_prints(outcome) == outcome.kind # "ok"

\* ------------------------------------- SpotifyController.enhance_search_query
\* line 112, negated: the reply matches the expected format
expected_format_contains_only(enhanced) == contains(enhanced, Separator)

expected_format(enhanced) ==
  contains(enhanced, Separator) /\ Len(split(enhanced, Separator)) = 2

\* raised: the exception that leaves the function ("" if it returns);
\* value: the string it returns.
Returned(s) == [raised |-> "", value |-> s]

Raised(e) == [raised |-> e, value |-> <<>>]

enhance_search_query(user_input, outcome) ==
  LET enhanced == generate(outcome) IN
  IF truthy(enhanced)
    THEN IF enhanced.t # "str"
           THEN Raised("AttributeError")
           ELSE IF ~expected_format(strip(enhanced.s))
                  THEN Returned(user_input)
                  ELSE Returned(strip(enhanced.s))
    ELSE Returned(user_input)

\* ------------------------------------------------------------------ int()
Digits == {"0", "1", "2", "3", "4", "5", "6", "7", "8", "9"}

DigitValue(c) ==
  CASE c = "0" -> 0 [] c = "1" -> 1 [] c = "2" -> 2 [] c = "3" -> 3
    [] c = "4" -> 4 [] c = "5" -> 5 [] c = "6" -> 6 [] c = "7" -> 7
    [] c = "8" -> 8 [] c = "9" -> 9

RECURSIVE Decimal(_)
Decimal(body) ==
  IF body = <<>> THEN 0
  ELSE IF body[Len(body)] = "_" THEN Decimal(SubSeq(body, 1, Len(body) - 1))
  ELSE 10 * Decimal(SubSeq(body, 1, Len(body) - 1)) + DigitValue(body[Len(body)])

\* int(text) for a str: surrounding whitespace, an optional sign, decimal
\* digits with single underscores between them.  ok = FALSE is ValueError.
int(text) ==
  LET t == strip(text)
      signed == t # <<>> /\ Head(t) \in {"+", "-"}
      body == IF signed THEN Tail(t) ELSE t
      wellformed ==
        /\ body # <<>>
        /\ \A i \in 1..Len(body) : body[i] \in Digits \cup {"_"}
        /\ body[1] # "_" /\ body[Len(body)] # "_"
        /\ \A i \in 1..(Len(body) - 1) : ~(body[i] = "_" /\ body[i + 1] = "_")
  IN IF ~wellformed THEN [ok |-> FALSE, val |-> 0]
     ELSE [ok |-> TRUE,
           val |-> IF signed /\ Head(t) = "-" THEN 0 - Decimal(body)
                   ELSE Decimal(body)]

\* ----------------------------------------------------------------- inputs
Alphabet == {" ", "-", "a"}

\* replies of the generation endpoint ("response" strings), with or without
\* a final newline
Replies ==
  StringsUpTo(Alphabet, MaxReplyLen)
    \cup {s \o <<"\n">> : s \in StringsUpTo(Alphabet, MaxReplyLen)}

\* " ".join(cmd[1:]) of a command line: words joined by single spaces
UserTexts ==
  {<<"a">>, <<"a", " ", "-", " ", "a">>,
   <<"a", " ", "-", " ", "a", " ", "-", " ", "a">>}

AllLLMOutcomes ==
  Failures \cup {Answer(v) : v \in NonStrings} \cup {Answer(Str(s)) : s \in Replies}

\* a sample of the replies for the command loop
SampleReplies ==
  {<<>>, <<" ">>, <<"a">>, <<"a", " ", "-", " ", "a">>,
   <<" ", "a", "a", " ", "-", " ", "a", " ">>,
   <<"a", " ", "-", " ", " ", "-", " ", "a">>,
   <<"a", " ", "-", " ", "-", " ", "a">>,
   <<"a", " ", "-", " ", "a", "\n">>}

SampleLLMOutcomes ==
  Failures \cup {Answer(v) : v \in NonStrings} \cup {Answer(Str(s)) : s \in SampleReplies}

\* what input() does at a prompt: a line, KeyboardInterrupt or EOFError
Line(text) == [kind |-> "line", text |-> text]

Interrupt == [kind |-> "interrupt", text |-> <<>>]

EndOfFile == [kind |-> "eof", text |-> <<>>]

NoInput == [kind |-> "none", text |-> <<>>]

ChoiceChars == {"0", "1", "3", "6", "-", "+", " ", "x"}

ChoiceInputs ==
  {Line(s) : s \in StringsUpTo(ChoiceChars, MaxChoiceLen)} \cup {Interrupt, EndOfFile}

TokenChars == {"0", "1", "5", "-", "x"}

\* cmd[1] of a volume command: a non-empty word without whitespace
VolumeTokens == StringsUpTo(TokenChars, MaxTokenLen) \ {<<>>}

\* track URIs in the two relevance orders the catalog may answer in
Rankings ==
  {[i \in 1..SearchLimit |-> i], [i \in 1..SearchLimit |-> SearchLimit + 1 - i]}

\* sp.search(q, type="track", limit): an exception or at most limit items
SearchOutcomes(limit) ==
  {[ok |-> FALSE, items |-> <<>>]}
    \cup {[ok |-> TRUE, items |-> SubSeq(r, 1, k)] : r \in Rankings, k \in 0..limit}

MaxDevices == 2

\* sp.devices(): an exception or a listing of count devices
DeviceOutcomes ==
  {[ok |-> FALSE, count |-> 0]} \cup {[ok |-> TRUE, count |-> k] : k \in 0..MaxDevices}

\* ------------------------------------------------------------------ state
VARIABLES
  pc,             \* position of the process: "repl" (command prompt, cli.py:55),
                  \* "enhance" (enhance_search_query about to run), "enhanced"
                  \* (it returned), "done" (the command is over), "select" (selection prompt, line 134),
                  \* "play_track" (play_track about to run), "exited" (loop
                  \* left by break), "crashed" (an exception left main)
  op,             \* the command being executed
  user_input,     \* query of the play/quickplay command
  reply,          \* what the generation endpoint did in the enhance step
  enhanced_query, \* value returned by enhance_search_query
  tracks,         \* value returned by search_track: None or a list of URIs
  choice,         \* what input() did at the selection prompt
  track_uri,      \* argument of play_track
  exc,            \* exception that left main
  log             \* remote calls and printed lines of the current command

vars ==
  <<pc, op, user_input, reply, enhanced_query, tracks, choice, track_uri, exc, log>>

Event(e, s, n) == [ev |-> e, s |-> s, n |-> n]

Ev(e) == Event(e, <<>>, 0)

When(cond, events) == IF cond THEN events ELSE <<>>

\* list[index]: a negative index counts from the end; ok = FALSE is IndexError
getitem(list, index) ==
  IF 0 <= index /\ index < Len(list) THEN [ok |-> TRUE, val |-> list[index + 1]]
  ELSE IF index < 0 /\ 0 - index <= Len(list)
    THEN [ok |-> TRUE, val |-> list[Len(list) + index + 1]]
  ELSE [ok |-> FALSE, val |-> 0]

\* Optional[list]: None, or the list items
NoTracks == [t |-> "None", items |-> <<>>]

List(items) == [t |-> "list", items |-> items]

Init ==
  /\ pc = "repl"
  /\ op = "none"
  /\ user_input = <<>>
  /\ reply = NoOutcome
  /\ enhanced_query = <<>>
  /\ tracks = NoTracks
  /\ choice = NoInput
  /\ track_uri = 0
  /\ exc = ""
  /\ log = <<>>

\* cli.py:53: the command is over and the loop comes back to the prompt; the
\* locals of the command are gone
LoopAgain ==
  /\ pc = "done"
  /\ pc' = "repl"
  /\ op' = "none"
  /\ user_input' = <<>>
  /\ reply' = NoOutcome
  /\ enhanced_query' = <<>>
  /\ tracks' = NoTracks
  /\ choice' = NoInput
  /\ track_uri' = 0
  /\ exc' = ""
  /\ log' = <<>>

\* a command line was read and dispatched
Dispatch(command, nextpc, events) ==
  /\ pc = "repl"
  /\ pc' = nextpc
  /\ op' = command
  /\ log' = events
  /\ UNCHANGED <<reply, enhanced_query, tracks, choice, track_uri, exc>>

\* cli.py:61-64
CmdQuit == Dispatch("quit", "exited", <<Ev("print_goodbye")>>) /\ user_input' = <<>>

\* cli.py:56-57
CmdEmptyLine == Dispatch("empty", "done", <<>>) /\ user_input' = <<>>

\* cli.py:92-93: an unknown word, or play/quickplay/volume without argument
CmdUnknown == Dispatch("unknown", "done", <<Ev("print_unknown")>>) /\ user_input' = <<>>

\* cli.py:95-98: KeyboardInterrupt at the command prompt
PromptInterrupt ==
  Dispatch("interrupt", "exited", <<Ev("print_goodbye")>>) /\ user_input' = <<>>

\* cli.py:55: EOFError at the command prompt is not caught
PromptEndOfFile ==
  /\ pc = "repl"
  /\ pc' = "crashed"
  /\ exc' = "EOFError"
  /\ op' = "eof"
  /\ UNCHANGED <<user_input, reply, enhanced_query, tracks, choice, track_uri, log>>

\* cli.py:65-67
CmdPlay ==
  /\ pc = "repl"
  /\ \E q \in UserTexts : Dispatch("play", "enhance", <<>>) /\ user_input' = q

\* cli.py:68-70
CmdQuickplay ==
  /\ pc = "repl"
  /\ \E q \in UserTexts : Dispatch("quickplay", "enhance", <<>>) /\ user_input' = q

\* llm_helper.py:14-23: one POST to the generation endpoint, a notice when it
\* raises inside the try block
GenerateEvents_retry(outcome) ==
  IF generate_prints(outcome)
    THEN <<Ev("llm_request"), Ev("print_llm_error"), Ev("llm_request")>>
    ELSE <<Ev("llm_request")>>

GenerateEvents(outcome) ==
  <<Ev("llm_request")>> \o When(generate_prints(outcome), <<Ev("print_llm_error")>>)

\* spotify_controller.py:89-114 with llm_helper.py:12-23, called from
\* search_and_play (line 119) or from the quickplay branch (cli.py:70).
\* An exception leaving it leaves search_and_play and the loop's
\* try/except KeyboardInterrupt as well.
Enhance(outcomes) ==
  /\ pc = "enhance"
  /\ \E o \in outcomes :
       LET r == enhance_search_query(user_input, o) IN
       /\ reply' = o
       /\ log' = log \o GenerateEvents(o)
       /\ IF r.raised # ""
            THEN /\ pc' = "crashed"
                 /\ exc' = r.raised
                 /\ UNCHANGED enhanced_query
            ELSE /\ pc' = "enhanced"
                 /\ enhanced_query' = r.value
                 /\ UNCHANGED exc
  /\ UNCHANGED <<op, user_input, tracks, choice, track_uri>>

EnhanceSearchQuery == pc = "enhance" /\ Enhance(SampleLLMOutcomes)

\* spotify_controller.py:64-71
search_track(outcome) == IF outcome.ok THEN List(outcome.items) ELSE NoTracks

\* the "search_reply" event records what sp.search() answered: the number of
\* items, -1 for an exception
SearchEvents_user_text(query, limit, outcome) ==
  <<Event("search", user_input, limit),
    Event("search_reply", <<>>, IF outcome.ok THEN Len(outcome.items) ELSE 0 - 1)>>
    \o When(~outcome.ok, <<Ev("print_search_error")>>)

SearchEvents(query, limit, outcome) ==
  <<Event("search", query, limit),
    Event("search_reply", <<>>, IF outcome.ok THEN Len(outcome.items) ELSE 0 - 1)>>
    \o When(~outcome.ok, <<Ev("print_search_error")>>)

\* not tracks (lines 124 and 215)
not_tracks_none_only(found) == found.t = "None"

not_tracks(found) == found.t = "None" \/ found.items = <<>>

\* spotify_controller.py:120-121 (play) and cli.py:71-72 (quickplay)
ShowEnhanced ==
  /\ pc = "enhanced"
  /\ pc' = "search"
  /\ log' = log \o When(enhanced_query # user_input,
                         <<Event("print_enhanced", enhanced_query, 0)>>)
  /\ UNCHANGED <<op, user_input, reply, enhanced_query, tracks, choice, track_uri, exc>>

\* spotify_controller.py:123-131: search, listing of the candidates
SearchAndPlaySearch ==
  /\ pc = "search" /\ op = "play"
  /\ \E o \in SearchOutcomes(SearchLimit) :
       LET found == search_track(o) IN
       /\ tracks' = found
       /\ IF not_tracks(found)
            THEN /\ pc' = "done"
                 /\ log' = log \o SearchEvents(enhanced_query, SearchLimit, o)
                               \o <<Ev("print_no_tracks")>>
            ELSE /\ pc' = "select"
                 /\ log' = log \o SearchEvents(enhanced_query, SearchLimit, o)
                               \o <<Event("print_results", enhanced_query, Len(found.items))>>
  /\ reply' = NoOutcome
  /\ UNCHANGED <<op, user_input, enhanced_query, choice, track_uri, exc>>

\* cli.py:73 and spotify_controller.py:212-223 up to the play_track call
PlayBestMatch ==
  /\ pc = "search" /\ op = "quickplay"
  /\ \E o \in SearchOutcomes(BestMatchLimit) :
       LET found == search_track(o) IN
       /\ tracks' = found
       /\ IF not_tracks(found)
            THEN /\ pc' = "done"
                 /\ log' = log \o SearchEvents(enhanced_query, BestMatchLimit, o)
                               \o <<Ev("print_no_tracks")>>
                 /\ UNCHANGED <<track_uri, exc>>
            ELSE LET track == getitem(found.items, 0) IN
                 IF track.ok
                   THEN /\ pc' = "play_track"
                        /\ track_uri' = track.val
                        /\ log' = log \o SearchEvents(enhanced_query, BestMatchLimit, o)
                                      \o <<Event("print_playing_best", <<>>, track.val),
                                           Event("play_track", <<>>, track.val)>>
                        /\ UNCHANGED exc
                   ELSE /\ pc' = "crashed"
                        /\ exc' = "IndexError"
                        /\ log' = log \o SearchEvents(enhanced_query, BestMatchLimit, o)
                        /\ UNCHANGED track_uri
  /\ reply' = NoOutcome
  /\ UNCHANGED <<op, user_input, enhanced_query, choice>>

\* ------------------------------------------------- selection (lines 133-146)
\* line 137
in_range_no_lower_bound(index, count) == index < count

in_range(index, count) == 0 <= index /\ index < count

\* lines 134-135: ok = FALSE is the ValueError of int()
selection_index(text) ==
  LET stripped == strip(text) IN
  IF stripped = <<>> THEN [ok |-> TRUE, val |-> 0]
  ELSE LET parsed == int(stripped) IN [ok |-> parsed.ok, val |-> parsed.val - 1]

\* the handler of except (ValueError, KeyboardInterrupt), line 145-146
on_value_error_invalid == <<Ev("print_invalid_selection")>>

on_value_error == <<Ev("print_cancelled")>>

\* KeyboardInterrupt at the prompt of line 134: caught at line 145, the
\* function returns; uncaught it would reach cli.py:95-98 and end the loop
on_keyboard_interrupt_uncaught == [pc |-> "exited", events |-> <<Ev("print_goodbye")>>]

on_keyboard_interrupt == [pc |-> "done", events |-> <<Ev("print_cancelled")>>]

SelectTrack ==
  /\ pc = "select"
  /\ \E inp \in ChoiceInputs :
       /\ choice' = inp
       /\ CASE inp.kind = "interrupt" ->
                 /\ pc' = on_keyboard_interrupt.pc
                 /\ log' = log \o <<Ev("prompt")>> \o on_keyboard_interrupt.events
                 /\ UNCHANGED <<track_uri, exc>>
            [] inp.kind = "eof" ->
                 /\ pc' = "crashed"
                 /\ exc' = "EOFError"
                 /\ log' = log \o <<Ev("prompt")>>
                 /\ UNCHANGED track_uri
            [] OTHER ->
                 LET index == selection_index(inp.text) IN
                 IF ~index.ok
                   THEN /\ pc' = "done"
                        /\ log' = log \o <<Ev("prompt")>> \o on_value_error
                        /\ UNCHANGED <<track_uri, exc>>
                 ELSE IF in_range(index.val, Len(tracks.items))
                   THEN LET selected_track == getitem(tracks.items, index.val) IN
                        IF selected_track.ok
                          THEN /\ pc' = "play_track"
                               /\ track_uri' = selected_track.val
                               /\ log' = log \o <<Ev("prompt"),
                                                  Event("print_selected", <<>>, selected_track.val),
                                                  Event("play_track", <<>>, selected_track.val)>>
                               /\ UNCHANGED exc
                          ELSE /\ pc' = "crashed"
                               /\ exc' = "IndexError"
                               /\ log' = log \o <<Ev("prompt")>>
                               /\ UNCHANGED track_uri
                 ELSE /\ pc' = "done"
                      /\ log' = log \o <<Ev("prompt"), Ev("print_invalid_selection")>>
                      /\ UNCHANGED <<track_uri, exc>>
  /\ UNCHANGED <<op, user_input, reply, enhanced_query, tracks>>

\* ------------------------------------------------- play_track (lines 73-87)
\* lines 41-48: the listing, [] when sp.devices() raises; a listing is
\* modelled by the number of its devices
get_devices_ready_on_error(outcome) == IF outcome.ok THEN outcome.count ELSE 1

get_devices(outcome) == IF outcome.ok THEN outcome.count ELSE 0

\* line 77, negated
has_devices_ungated(devices) == TRUE

has_devices(devices) == devices # 0

\* the "devices" event records what sp.devices() answered: -1 is an exception
DevicesEvents(outcome) ==
  <<Event("devices", <<>>, IF outcome.ok THEN outcome.count ELSE 0 - 1)>>
    \o When(~outcome.ok, <<Ev("print_devices_error")>>)

PlayTrack ==
  /\ pc = "play_track"
  /\ \E d \in DeviceOutcomes, started \in BOOLEAN :
       LET devices == get_devices(d) IN
       IF ~has_devices(devices)
         THEN log' = log \o DevicesEvents(d) \o <<Ev("print_remediation")>>
         ELSE log' = log \o DevicesEvents(d)
                         \o <<Event("start_playback", <<>>, track_uri)>>
                         \o (IF started THEN <<Ev("print_playing")>>
                             ELSE <<Ev("print_play_error")>>)
  /\ pc' = "done"
  /\ UNCHANGED <<op, user_input, reply, enhanced_query, tracks, choice, track_uri, exc>>

\* ------------------------------------------- transport commands (148-210)
\* one remote call in a try block, a status line either way
Transport(command, call) ==
  \E ok \in BOOLEAN :
    /\ Dispatch(command, "done",
                <<Ev(call), IF ok THEN Ev("print_status") ELSE Ev("print_error")>>)
    /\ user_input' = <<>>

\* cli.py:74-75, spotify_controller.py:148-154
CmdPause == pc = "repl" /\ Transport("pause", "pause_playback")

\* cli.py:76-77, spotify_controller.py:156-162
CmdResume == pc = "repl" /\ Transport("resume", "resume_playback")

\* cli.py:78-79, spotify_controller.py:164-170
CmdNext == pc = "repl" /\ Transport("next", "next_track")

\* cli.py:80-81, spotify_controller.py:172-178
CmdPrev == pc = "repl" /\ Transport("prev", "previous_track")

\* cli.py:82-83, spotify_controller.py:180-201: current_playback() raises,
\* answers nothing, answers without an item, or answers a playing item
CmdCurrent ==
  /\ pc = "repl"
  /\ \E answer \in {"error", "none", "no_item", "item"} :
       /\ Dispatch("current", "done",
                   <<Ev("current_playback"),
                     CASE answer = "error" -> Ev("print_error")
                       [] answer = "item" -> Ev("print_status")
                       [] OTHER -> Ev("print_nothing_playing")>>)
       /\ user_input' = <<>>

\* cli.py:84-85, spotify_controller.py:50-62
CmdDevices ==
  /\ pc = "repl"
  /\ \E d \in DeviceOutcomes :
       /\ Dispatch("devices", "done",
                   DevicesEvents(d)
                     \o (IF ~has_devices(get_devices(d)) THEN <<Ev("print_no_devices")>>
                         ELSE <<Event("print_devices", <<>>, get_devices(d))>>))
       /\ user_input' = <<>>

\* line 206
clamp_upper_only(volume) == IF volume > VolumeMax THEN VolumeMax ELSE volume

clamp(volume) ==
  LET upper == IF VolumeMax < volume THEN VolumeMax ELSE volume
  IN IF VolumeMin > upper THEN VolumeMin ELSE upper

\* cli.py:86-91 and spotify_controller.py:203-210; user_input is cmd[1]
CmdVolume ==
  /\ pc = "repl"
  /\ \E token \in VolumeTokens, ok \in BOOLEAN :
       LET vol == int(token) IN
       /\ user_input' = token
       /\ IF ~vol.ok
            THEN Dispatch("volume", "done", <<Ev("print_invalid_volume")>>)
            ELSE Dispatch("volume", "done",
                   <<Event("volume", <<>>, clamp(vol.val)),
                     IF ok THEN Event("print_volume", <<>>, clamp(vol.val))
                     ELSE Ev("print_error")>>)

\* ---------------------------------------------------------- specifications
Next ==
  \/ LoopAgain
  \/ CmdQuit
  \/ CmdEmptyLine
  \/ CmdUnknown
  \/ PromptInterrupt
  \/ PromptEndOfFile
  \/ CmdPlay
  \/ CmdQuickplay
  \/ EnhanceSearchQuery
  \/ ShowEnhanced
  \/ SearchAndPlaySearch
  \/ PlayBestMatch
  \/ SelectTrack
  \/ PlayTrack
  \/ CmdPause
  \/ CmdResume
  \/ CmdNext
  \/ CmdPrev
  \/ CmdCurrent
  \/ CmdDevices
  \/ CmdVolume

Spec == Init /\ [][Next]_vars

\* The enhancement step over every reply of the generation endpoint up to
\* MaxReplyLen: a play or quickplay command up to its search call.
EnhanceAnyReply == pc = "enhance" /\ Enhance(AllLLMOutcomes)

NextEnhance ==
  \/ LoopAgain
  \/ CmdPlay
  \/ CmdQuickplay
  \/ EnhanceAnyReply
  \/ ShowEnhanced
  \/ SearchAndPlaySearch
  \/ PlayBestMatch

SpecEnhance == Init /\ [][NextEnhance]_vars

\* =================================================================== claims
Positions(e) == {i \in DOMAIN log : log[i].ev = e}

Has(e) == Positions(e) # {}

Count(e) == Cardinality(Positions(e))

\* the listing sp.devices() answered inside the play_track invocation that
\* starts at position k of the log: the positions after k
ListingsAfter(k) == {j \in Positions("devices") : j > k}

\* C1: a start-playback call carrying a track URI comes after a device
\* listing fetched inside the same play_track invocation that answered at
\* least one device; once play_track has fetched a listing that is empty or
\* failed, the remediation message is printed and no start-playback call is
\* issued, although a track was selected.
C1_PlaybackOnlyWithDevices ==
  /\ \A i \in Positions("start_playback") :
       \E k \in Positions("play_track"), j \in Positions("devices") :
         /\ k < j /\ j < i
         /\ log[j].n >= 1
         /\ log[i].n = log[k].n
  /\ \A k \in Positions("play_track"), j \in Positions("devices") :
       (k < j /\ log[j].n <= 0) =>
         /\ Has("print_remediation")
         /\ ~Has("start_playback")
         /\ track_uri = log[k].n
         /\ pc = "done"

C1_Witness ==
  /\ op = "play"
  /\ Has("print_selected")
  /\ \E j \in Positions("devices") : log[j].n = 0 - 1
  /\ Has("print_remediation")

\* ---- decimal numerals, as the claims read them
IsNumeral(s) ==
  LET body == IF s # <<>> /\ s[1] \in {"+", "-"} THEN SubSeq(s, 2, Len(s)) ELSE s
  IN body # <<>> /\ \A i \in 1..Len(body) : body[i] \in Digits

RECURSIVE DigitsValue(_)
DigitsValue(body) ==
  IF body = <<>> THEN 0
  ELSE 10 * DigitsValue(SubSeq(body, 1, Len(body) - 1)) + DigitValue(body[Len(body)])

NumeralValue(s) ==
  IF s[1] = "-" THEN 0 - DigitsValue(SubSeq(s, 2, Len(s)))
  ELSE IF s[1] = "+" THEN DigitsValue(SubSeq(s, 2, Len(s)))
  ELSE DigitsValue(s)

\* s without its leading and trailing whitespace
Trimmed(s) ==
  IF \A i \in DOMAIN s : s[i] \in Whitespace THEN <<>>
  ELSE LET first == CHOOSE i \in DOMAIN s :
                      s[i] \notin Whitespace /\ \A j \in 1..(i - 1) : s[j] \in Whitespace
           last == CHOOSE i \in DOMAIN s :
                     s[i] \notin Whitespace /\ \A j \in (i + 1)..Len(s) : s[j] \in Whitespace
       IN [i \in 1..(last - first + 1) |-> s[first + i - 1]]

\* the selection prompt has been answered with a line
Answered == choice.kind = "line"

Candidates == tracks.items

HandedToPlayTrack(uri) ==
  /\ Count("play_track") = 1
  /\ \A k \in Positions("play_track") : log[k].n = uri
  /\ track_uri = uri
  /\ pc \in {"play_track", "done"}

\* C2: with N candidates, an empty selection hands candidate 1 to play_track,
\* the numeral k with 1 <= k <= N hands candidate k, and every other line
\* (0, negative, k > N, non-numeric) ends the command without a play_track
\* call and without a start-playback call.
C2_SelectionContract ==
  Answered =>
    LET line == Trimmed(choice.text)
        N == Len(Candidates)
    IN /\ N \in 1..SearchLimit
       /\ IF line = <<>> THEN HandedToPlayTrack(Candidates[1])
          ELSE IF IsNumeral(line) /\ NumeralValue(line) \in 1..N
            THEN HandedToPlayTrack(Candidates[NumeralValue(line)])
          ELSE /\ ~Has("play_track")
               /\ ~Has("start_playback")
               /\ ~Has("devices")
               /\ pc = "done"

C2_Witness ==
  /\ Answered
  /\ Trimmed(choice.text) \in {<<"0">>, <<"-", "1">>, <<"-", "3">>}
  /\ Len(Candidates) >= 3
  /\ pc = "done"
  /\ ~Has("play_track")

\* C3 as stated: a quickplay whose search answered at least one track issues
\* exactly one start-playback call, for the first track, and never prompts.
C3_AlwaysOnePlaybackCall ==
  (op = "quickplay" /\ pc = "done" /\ \E i \in Positions("search_reply") : log[i].n >= 1) =>
    /\ Count("start_playback") = 1
    /\ \A i \in Positions("start_playback") : log[i].n = Candidates[1]
    /\ ~Has("prompt")

\* C3 amended: a quickplay whose search answered at least one track calls
\* play_track exactly once, with the first track, and never prompts; exactly
\* one start-playback call, carrying that track, is issued when the device
\* listing fetched by that play_track answered at least one device, and none
\* otherwise.
C3_OnePlaybackCallWhenDevices ==
  (op = "quickplay" /\ pc = "done" /\ \E i \in Positions("search_reply") : log[i].n >= 1) =>
    /\ Count("play_track") = 1
    /\ \A k \in Positions("play_track") : log[k].n = Candidates[1]
    /\ ~Has("prompt")
    /\ Count("devices") = 1
    /\ \A i \in Positions("start_playback") : log[i].n = Candidates[1]
    /\ \A j \in Positions("devices") :
         Count("start_playback") = (IF log[j].n >= 1 THEN 1 ELSE 0)

C3_Witness ==
  /\ op = "quickplay"
  /\ pc = "done"
  /\ Count("start_playback") = 1
  /\ enhanced_query # user_input

\* ---- the separator in a reply, as the claims read it
Occurrences(s) == {i \in 1..(Len(s) - 2) : SubSeq(s, i, i + 2) = Separator}

First(S) == CHOOSE i \in S : \A j \in S : i <= j

\* splitting s on the separator gives exactly two parts, both non-empty
SplitsInTwo(s) ==
  /\ Occurrences(s) # {}
  /\ LET f == First(Occurrences(s)) IN
       /\ \A j \in Occurrences(s) : j < f + 3
       /\ f > 1
       /\ f + 2 < Len(s)

\* the separator occurs exactly once in s, with a non-empty part on each side
ExactlyOneSeparator(s) ==
  /\ Cardinality(Occurrences(s)) = 1
  /\ \A f \in Occurrences(s) : f > 1 /\ f + 2 < Len(s)

\* the generation endpoint answered a text, and enhance_search_query is over
TextReply == reply.kind = "ok" /\ reply.value.t = "str"

\* C4: for a text reply whose trimmed form does not split on the separator
\* into exactly two non-empty parts, enhance_search_query returns the user's
\* text; and every query handed to search is the user's text or splits on
\* the separator into exactly two non-empty parts.
C4_MalformedReplyIsDropped ==
  /\ (TextReply /\ ~SplitsInTwo(Trimmed(reply.value.s))) =>
       /\ pc \in {"enhanced", "search"}
       /\ enhanced_query = user_input
  /\ \A i \in Positions("search") :
       /\ log[i].s = enhanced_query
       /\ log[i].s = user_input \/ SplitsInTwo(log[i].s)

C4_Witness ==
  /\ pc = "search"
  /\ reply = Answer(Str(<<"a", " ", "-", " ", " ", "-", " ", "a">>))
  /\ user_input = <<"a">>
  /\ enhanced_query = <<"a">>

\* C5: for a text reply whose trimmed form contains the separator exactly
\* once with a non-empty part on each side, enhance_search_query returns
\* that trimmed reply, whatever the user's text.
C5_WellFormedReplyIsReturned ==
  (TextReply /\ ExactlyOneSeparator(Trimmed(reply.value.s))) =>
    /\ pc \in {"enhanced", "search"}
    /\ enhanced_query = Trimmed(reply.value.s)

C5_Witness ==
  /\ pc = "enhanced"
  /\ reply = Answer(Str(<<" ", "a", "a", " ", "-", " ", "a", " ">>))
  /\ user_input = <<"a", " ", "-", " ", "a">>
  /\ enhanced_query = <<"a", "a", " ", "-", " ", "a">>

\* the generation endpoint failed, or answered something that is not a text
FailedReply == reply.kind \in FailureKinds \/ (reply.kind = "ok" /\ reply.value.t # "str")

\* C6: whatever the generation endpoint does short of answering a text,
\* enhance_search_query raises nothing and returns the user's text.
C6_EnhanceNeverRaises ==
  FailedReply => (pc \in {"enhanced", "search"} /\ exc = "" /\ enhanced_query = user_input)

\* the line given at the selection prompt, trimmed
SelectionLine == Trimmed(choice.text)

NonNumericSelection == Answered /\ SelectionLine # <<>> /\ ~IsNumeral(SelectionLine)

OutOfRangeSelection ==
  /\ Answered
  /\ IsNumeral(SelectionLine)
  /\ NumeralValue(SelectionLine) \notin 1..Len(Candidates)

NoPlaybackAttempted == ~Has("play_track") /\ ~Has("devices") /\ ~Has("start_playback")

\* C7 as stated: a non-numeric line and a numeral out of range both end the
\* command with the invalid-selection line, and only an interrupt ends it
\* with the cancellation line.
C7_NonNumericIsInvalidSelection ==
  /\ (NonNumericSelection \/ OutOfRangeSelection) =>
       (Has("print_invalid_selection") /\ ~Has("print_cancelled"))
  /\ Has("print_cancelled") => choice.kind = "interrupt"

\* C7 amended: a numeral out of range ends the command with the
\* invalid-selection line; a non-numeric line ends it with the cancellation
\* line, as an interrupt does; in none of these cases is playback attempted.
C7_NonNumericIsCancelled ==
  /\ OutOfRangeSelection =>
       /\ Has("print_invalid_selection") /\ ~Has("print_cancelled")
       /\ NoPlaybackAttempted /\ pc = "done"
  /\ (NonNumericSelection \/ choice.kind = "interrupt") =>
       /\ Has("print_cancelled") /\ ~Has("print_invalid_selection")
       /\ NoPlaybackAttempted /\ pc = "done"
  /\ Has("print_cancelled") => (NonNumericSelection \/ choice.kind = "interrupt")
  /\ Has("print_invalid_selection") => OutOfRangeSelection

C7_Witness ==
  /\ NonNumericSelection
  /\ pc = "done"
  /\ Has("print_cancelled")

\* C8: when the search call of search_and_play or play_best_match answers no
\* item or fails, the command prints "No tracks found" and is over: one
\* search call, no prompt, no device listing, no start-playback call, no
\* exception.
C8_EmptySearchEndsCommand ==
  /\ Count("search") <= 1
  /\ \A i \in Positions("search_reply") :
       log[i].n <= 0 =>
         /\ op \in {"play", "quickplay"}
         /\ pc = "done"
         /\ exc = ""
         /\ Count("search") = 1
         /\ Has("print_no_tracks")
         /\ ~Has("prompt")
         /\ NoPlaybackAttempted

C8_Witness ==
  /\ op = "quickplay"
  /\ \E i \in Positions("search_reply") : log[i].n = 0 - 1
  /\ Has("print_no_tracks")
  /\ pc = "done"

Clamped(v) == IF v < 0 THEN 0 ELSE IF v > 100 THEN 100 ELSE v

\* C9: for an integer volume v the remote volume call, and the line printed,
\* carry min(100, max(0, v)); no volume call carries a value outside 0..100;
\* a volume argument that is not an integer makes no remote call.
C9_VolumeIsClamped ==
  /\ \A i \in Positions("volume") : log[i].n \in 0..100
  /\ (op = "volume" /\ pc = "done") =>
       IF IsNumeral(user_input)
         THEN /\ Count("volume") = 1
              /\ log[1] = Event("volume", <<>>, Clamped(NumeralValue(user_input)))
              /\ \A i \in Positions("print_volume") :
                   log[i].n = Clamped(NumeralValue(user_input))
              /\ Has("print_volume") \/ Has("print_error")
         ELSE log = <<Ev("print_invalid_volume")>>

C9_Witness ==
  /\ op = "volume"
  /\ user_input = <<"1", "5", "0">>
  /\ log = <<Event("volume", <<>>, 100), Event("print_volume", <<>>, 100)>>

\* C10: no exception raised by what a command meets (a failing remote call,
\* an empty search, an invalid selection, a missing argument, a non-numeric
\* volume) leaves the command loop, and the loop is left only by quit, exit,
\* q or an interrupt at the command prompt.  The end of the input stream is
\* not among these outcomes.
C10_NoErrorLeavesCommand ==
  /\ pc = "crashed" => exc = "EOFError"
  /\ pc = "exited" => op \in {"quit", "interrupt"}

\* the reply was rejected: a text that does not split in two on the separator
RejectedReply == TextReply /\ ~SplitsInTwo(Trimmed(reply.value.s))

\* the generation endpoint could not be reached or did not answer a payload
UnreachableEnhancer == reply.kind \in FailureKinds

\* C11: in the play and the quickplay command the query handed to search is
\* the value enhance_search_query returned for the user's text; when it
\* differs from the user's text one "Enhanced search" line carrying exactly
\* that string is printed before the search call, otherwise none; when the
\* enhancer is unreachable or its reply is rejected no such line is printed
\* and the search runs on the user's text.
C11_SearchUsesEnhancedQuery ==
  /\ pc = "search" =>
       /\ ~Has("search")
       /\ Count("print_enhanced") = (IF enhanced_query # user_input THEN 1 ELSE 0)
       /\ \A j \in Positions("print_enhanced") : log[j].s = enhanced_query
       /\ TextReply =>
            enhanced_query = (IF SplitsInTwo(Trimmed(reply.value.s))
                                THEN Trimmed(reply.value.s) ELSE user_input)
       /\ (UnreachableEnhancer \/ RejectedReply) =>
            (~Has("print_enhanced") /\ enhanced_query = user_input)
  /\ \A i \in Positions("search") :
       /\ op \in {"play", "quickplay"}
       /\ log[i].s = enhanced_query
       /\ Count("print_enhanced") = (IF log[i].s # user_input THEN 1 ELSE 0)
       /\ \A j \in Positions("print_enhanced") : j < i /\ log[j].s = log[i].s

C11_Witness ==
  /\ op = "quickplay"
  /\ user_input = <<"a">>
  /\ \E j \in Positions("print_enhanced"), i \in Positions("search") :
       /\ j < i
       /\ log[j].s = <<"a", "a", " ", "-", " ", "a">>
       /\ log[i].s = <<"a", "a", " ", "-", " ", "a">>

\* the remote calls and prompts of the command, in the order they were made
CallKinds == {"llm_request", "search", "prompt", "devices", "start_playback"}

Rank(e) ==
  CASE e = "llm_request" -> 1
    [] e = "search" -> 2
    [] e = "prompt" -> 3
    [] e = "devices" -> 4
    [] e = "start_playback" -> 5

CallPositions == {i \in DOMAIN log : log[i].ev \in CallKinds}

\* C12: a play or quickplay command sends exactly one request to the
\* generation endpoint, before its catalog search, of which there is at most
\* one; each kind of call is made at most once and the calls come in the
\* order enhancer, search, selection prompt (play only), device listing,
\* start playback.
C12_OneEnhancerRequestThenFixedOrder ==
  (op \in {"play", "quickplay"} /\ pc # "enhance") =>
    /\ Count("llm_request") = 1
    /\ log[1].ev = "llm_request"
    /\ \A e \in CallKinds : Count(e) <= 1
    /\ \A i, j \in CallPositions : i < j => Rank(log[i].ev) < Rank(log[j].ev)
    /\ Has("prompt") => op = "play"
    /\ Has("start_playback") => (Has("devices") /\ Has("search"))
    /\ Has("devices") => Has("search")
    /\ (op = "play" /\ Has("devices")) => Has("prompt")
    /\ pc \in {"search", "enhanced"} => ~Has("search")
    /\ pc \in {"select", "play_track", "done"} => Count("search") = 1

C12_Witness ==
  /\ op = "play"
  /\ pc = "done"
  /\ Has("print_llm_error")
  /\ \E a, b, c, d, e \in DOMAIN log :
       /\ a < b /\ b < c /\ c < d /\ d < e
       /\ log[a].ev = "llm_request"
       /\ log[b].ev = "search"
       /\ log[c].ev = "prompt"
       /\ log[d].ev = "devices"
       /\ log[e].ev = "start_playback"

\* the selection prompt was interrupted
InterruptedSelection == choice.kind = "interrupt"

\* C13: an interrupt at the selection prompt ends only that resolution: the
\* cancellation line is printed, no device listing is fetched, no
\* start-playback call is issued, no exception leaves the command, and the
\* loop goes back to the command prompt, where every command can be given.
C13_InterruptCancelsOnlyTheResolution ==
  InterruptedSelection =>
    /\ op = "play"
    /\ pc = "done"
    /\ exc = ""
    /\ Count("prompt") = 1
    /\ log[Len(log)] = Ev("print_cancelled")
    /\ ~Has("print_goodbye")
    /\ NoPlaybackAttempted
    /\ ENABLED LoopAgain
    /\ ~ENABLED (CmdQuit \/ PromptInterrupt \/ PromptEndOfFile)

C13_Witness ==
  /\ InterruptedSelection
  /\ pc = "done"
  /\ Has("print_cancelled")
  /\ Len(Candidates) = SearchLimit

====
